---- MODULE Spec2Model ----
(***************************************************************************)
(* Model of the chatbot backend: the HTTP handlers of handlers/chat.go and *)
(* handlers/session.go, the ChatService methods, the AIService interface   *)
(* and the relational store (sessions, messages, reactions) they share.    *)
(*                                                                         *)
(* Every handler is a process that runs one database statement per step;   *)
(* the statements of different requests interleave.  Spec runs the         *)
(* requests one after the other (each request finishes before the next is  *)
(* accepted); ConcSpec lets two requests interleave; LiveSpec is Spec with *)
(* handlers that keep running.  A behaviour serves at most MaxRequests     *)
(* requests and draws at most MaxIds fresh ids.                            *)
(***************************************************************************)
EXTENDS Integers, FiniteSets, Sequences, TLC

\* ------------------------------------------------------------------ bounds
MaxIds == 3
MaxTime == 2
MaxRequests == 2

\* ------------------------------------------------------------- identifiers
\* uuid.New().String() yields ids 1, 2, ... (never repeated).  EmptyId is the
\* empty string "" (the zero value of a Go string); BadId is a non-empty id
\* that no row ever carries.  The rows the database holds at start carry the
\* ids in SeedIds.
EmptyId == -1
BadId == 0
SeedIds == 11 .. 14

Procs == {"p1", "p2"}
FirstProc == "p1"

Texts == {"Hi", "Yo"}
Replies == {"R1"}
Titles == {"", "T1"}
Senders == {"user", "bot", "system"}
AddTexts == {"Yo"}
DefaultTitle == "New Chat"

VARIABLES
    sessions,   \* table sessions: id -> row
    messages,   \* table messages: id -> row
    reactions,  \* table reactions: set of rows
    schema,     \* how the tables were created: "ddl" or "automigrate"
    now,        \* the wall clock
    nextId,     \* next fresh uuid
    rq,         \* the requests in flight: process -> frame of the handler
    pre,        \* the store as it was when the running request was accepted
    seq,        \* TRUE when requests are served one at a time
    served      \* number of requests accepted so far

vars == <<sessions, messages, reactions, schema, now, nextId, rq, pre, seq, served>>

\* ------------------------------------------------------------------ models
\* models.Session as a table row (the id is the key).  created_at is written
\* once, with the row, and read by no handler: the column is left out.
SessionRow(title, updated, fav) ==
    [title |-> title, updated_at |-> updated, is_favorite |-> fav]

\* models.Session as the Go struct a handler holds.
SessionStruct(id, row) ==
    [id |-> id, title |-> row.title, updated_at |-> row.updated_at, is_favorite |-> row.is_favorite]

\* The zero value of models.Session.
ZeroSession == [id |-> EmptyId, title |-> "", updated_at |-> 0, is_favorite |-> FALSE]

\* The relations of models.Session that db.Preload can name.
SessionRelations == {"Messages"}

\* models.Message as a table row.
MessageRow(content, sender, ts, regen, origId, sid) ==
    [content |-> content, sender |-> sender, timestamp |-> ts, message_type |-> "text",
     is_regenerated |-> regen, original_message_id |-> origId, session_id |-> sid]

\* models.Message as the Go struct a handler holds.
MessageStruct(id, row) ==
    [id |-> id, content |-> row.content, sender |-> row.sender, timestamp |-> row.timestamp,
     message_type |-> row.message_type, is_regenerated |-> row.is_regenerated,
     original_message_id |-> row.original_message_id, session_id |-> row.session_id]

\* The zero value of models.Message.
ZeroMessage ==
    [id |-> EmptyId, content |-> "", sender |-> "", timestamp |-> 0, message_type |-> "",
     is_regenerated |-> FALSE, original_message_id |-> EmptyId, session_id |-> EmptyId]

RowOfMessage(m) ==
    [content |-> m.content, sender |-> m.sender, timestamp |-> m.timestamp,
     message_type |-> m.message_type, is_regenerated |-> m.is_regenerated,
     original_message_id |-> m.original_message_id, session_id |-> m.session_id]

RowOfSession(s) == SessionRow(s.title, s.updated_at, s.is_favorite)

\* ------------------------------------------------------------ the database
Put(f, k, v) == [x \in (DOMAIN f) \cup {k} |-> IF x = k THEN v ELSE f[x]]
Drop(f, K) == [x \in (DOMAIN f) \ K |-> f[x]]

MessagesOf(msgs, sid) == {m \in DOMAIN msgs : msgs[m].session_id = sid}

\* CHECK (sender IN ('user', 'bot')): only the hand-written DDL states it.
SenderCheck(sender) == schema = "ddl" => sender \in {"user", "bot"}

\* Mutant: the messages table is created without the foreign key.
SessionFK_None(sid) == TRUE

\* FOREIGN KEY (session_id) REFERENCES sessions(id): both schemas state it.
SessionFK(sid) == sid \in DOMAIN sessions

\* INSERT INTO messages: rejected by the foreign key or the CHECK constraint.
InsertMessageOk(row) == SessionFK(row.session_id) /\ SenderCheck(row.sender)

\* time.Now(): the clock never goes back; it may have advanced since the last read.
TimeNow(t) == {u \in {t, t + 1} : u <= MaxTime}

\* db.First(&session, "id = ?", id): gorm.ErrRecordNotFound when no row matches.
FirstSessionErr(id) == id \notin DOMAIN sessions

\* db.Preload(rel).First(&session, "id = ?", id): the query runs first; when it
\* found the row, the preload of a relation the model does not have adds
\* gorm.ErrUnsupportedRelation to the result.
PreloadFirstSessionErr(rel, id) == FirstSessionErr(id) \/ rel \notin SessionRelations

\* db.Where("session_id = ?", sid).Delete(&models.Message{}): one statement.
\* With ON DELETE CASCADE the reactions of the messages go too; without it a
\* reaction that still references one of the messages fails the statement.
DeleteMessagesErr(sid) ==
    /\ schema = "automigrate"
    /\ \E r \in reactions : r.message_id \in MessagesOf(messages, sid)

\* Mutant: the DELETE has lost its WHERE clause.
MessagesAfterDelete_All(sid) ==
    IF DeleteMessagesErr(sid) THEN messages ELSE Drop(messages, DOMAIN messages)

MessagesAfterDelete(sid) ==
    IF DeleteMessagesErr(sid) THEN messages ELSE Drop(messages, MessagesOf(messages, sid))

ReactionsAfterDelete(sid) ==
    IF DeleteMessagesErr(sid) THEN reactions
    ELSE {r \in reactions : r.message_id \notin MessagesOf(messages, sid)}

\* DELETE FROM sessions WHERE id = sid.  ON DELETE CASCADE removes the
\* messages of the session and their reactions; the foreign key AutoMigrate
\* creates has no ON DELETE rule and fails the statement while a message
\* references the session.
DeleteSessionRowErr(sid) ==
    /\ schema = "automigrate"
    /\ sid \in DOMAIN sessions
    /\ MessagesOf(messages, sid) # {}

\* Mutant: the DELETE matches no row.
SessionsAfterDeleteRow_Keeps(sid) == sessions

SessionsAfterDeleteRow(sid) ==
    IF DeleteSessionRowErr(sid) THEN sessions ELSE Drop(sessions, {sid})

MessagesAfterDeleteRow(sid) ==
    IF DeleteSessionRowErr(sid) \/ sid \notin DOMAIN sessions THEN messages
    ELSE Drop(messages, MessagesOf(messages, sid))

ReactionsAfterDeleteRow(sid) ==
    IF DeleteSessionRowErr(sid) \/ sid \notin DOMAIN sessions THEN reactions
    ELSE {r \in reactions : r.message_id \notin MessagesOf(messages, sid)}

\* ------------------------------------------------------------------ frames
Idle ==
    [op |-> "none", pc |-> "idle", status |-> 0,
     sessionId |-> EmptyId, messageId |-> EmptyId, text |-> "", title |-> "", sender |-> "",
     session |-> ZeroSession, orig |-> ZeroMessage, prompt |-> "",
     newSession |-> EmptyId, userMsg |-> EmptyId, botMsg |-> EmptyId,
     aiResponse |-> "", aiErr |-> FALSE, aiCalls |-> 0,
     isFavorite |-> "nil", upstream |-> ""]

Free(p) == rq[p].pc = "idle"

\* A request is accepted by p: when requests are served one at a time, only
\* while no other request runs.
Accept(p) ==
    /\ Free(p)
    /\ served < MaxRequests
    /\ seq => (p = FirstProc /\ \A q \in Procs : rq[q].pc = "idle")

\* The call before the running one, when it was a successful ToggleFavorite:
\* the session it toggled and the flag that session had before it.
ToggleOps == {"ToggleFavorite", "SvcToggleFavorite"}
NoToggle == [sessionId |-> EmptyId, is_favorite |-> FALSE]
LastToggle(r) ==
    IF r.op \in ToggleOps /\ r.status = 200
    THEN [sessionId |-> r.sessionId, is_favorite |-> pre.sessions[r.sessionId].is_favorite]
    ELSE NoToggle

\* The tables and the clock, with what is remembered of the last call.
Snapshot ==
    [sessions |-> sessions, messages |-> messages, reactions |-> reactions, now |-> now,
     last |-> pre.last]

TakeSnapshot == pre' = IF seq THEN Snapshot ELSE pre

\* The ids a client can name: those of the rows it was shown, and BadId.
KnownSids == (DOMAIN sessions) \cup {BadId}
KnownMids == (DOMAIN messages) \cup {BadId}

\* Every id handed out so far (the rows may be gone), and BadId.
UsedIds == (BadId .. (nextId - 1)) \cup SeedIds

\* Fresh ids the requests in flight may still draw.
NeedId(r) ==
    CASE r.op = "SendMessage" /\ r.pc = "user" -> 2
      [] r.op = "SendMessage" /\ r.pc = "ai" -> 1
      [] r.op = "RegenerateMessage" /\ r.pc \in {"sess", "prev", "mark", "ai"} -> 1
      [] OTHER -> 0

RECURSIVE SumNeed(_)
SumNeed(S) ==
    IF S = {} THEN 0
    ELSE LET p == CHOOSE x \in S : TRUE IN NeedId(rq[p]) + SumNeed(S \ {p})

IdsLeft == (MaxIds + 1 - nextId) - SumNeed(Procs)

Done(r, status) == [r EXCEPT !.pc = "done", !.status = status]

Frame(op, sid, mid, text) ==
    [Idle EXCEPT !.op = op, !.sessionId = sid, !.messageId = mid, !.text = text]

StoreUnchanged == UNCHANGED <<sessions, messages, reactions>>

\* The AIService interface: SendMessage and RegenerateMessage return a reply
\* and a nil error, or "" and an error (AIError).
AIError == "error"
AIResults == Replies \cup {AIError}
ReplyText(res) == IF res = AIError THEN "" ELSE res

\* What the completion endpoint does with a call: it answers with a reply,
\* answers with an error, or never answers (Silent).  MockAIService always
\* replies.
Silent == "silent"
Upstreams == AIResults \cup {Silent}

\* Mutant: an http.Client without Timeout waits for the answer forever.
ClientResults_NoTimeout(up) == IF up = Silent THEN {} ELSE {up}

\* OpenAIService.makeRequest: Client.Do returns the answer, or an error once
\* the 30 seconds of Client.Timeout have passed without one.
ClientResults(up) == IF up = Silent THEN {AIError} ELSE {up}

\* ------------------------------------------------- handlers.SendMessage
\* The session a SendMessage without sessionId creates.
NewChatSession(id, t1, t2) ==
    [id |-> id, title |-> DefaultTitle, updated_at |-> t2, is_favorite |-> FALSE]

\* The lookup of the session a SendMessage names.
SendLoadSessionErr(sid) == PreloadFirstSessionErr("Mode", sid)

UserMessage(text, t, sid) == MessageRow(text, "user", t, FALSE, EmptyId, sid)

\* Mutant: the bot message block copied from the user message, sender kept.
BotMessage_AsUser(reply, t, sid) == MessageRow(reply, "user", t, FALSE, EmptyId, sid)

BotMessage(reply, t, sid) == MessageRow(reply, "bot", t, FALSE, EmptyId, sid)

\* Bind the request, then create or get the session.
SendMessage_Begin(p) ==
    /\ Accept(p)
    /\ \E sid \in {EmptyId} \cup KnownSids, text \in Texts \cup {""} :
        LET r == Frame("SendMessage", sid, EmptyId, text) IN
        /\ IdsLeft >= (IF sid = EmptyId THEN 3 ELSE 2)
        /\ IF text = "" THEN
              /\ rq' = [rq EXCEPT ![p] = Done(r, 400)]
              /\ UNCHANGED <<sessions, nextId, now>>
           ELSE IF sid # EmptyId THEN
              /\ rq' = [rq EXCEPT ![p] =
                        IF SendLoadSessionErr(sid) THEN Done(r, 404)
                        ELSE [r EXCEPT !.pc = "user", !.session = SessionStruct(sid, sessions[sid])]]
              /\ UNCHANGED <<sessions, nextId, now>>
           ELSE
              \E t1 \in TimeNow(now) : \E t2 \in TimeNow(t1) :
              /\ sessions' = Put(sessions, nextId, RowOfSession(NewChatSession(nextId, t1, t2)))
              /\ nextId' = nextId + 1
              /\ now' = t2
              /\ rq' = [rq EXCEPT ![p] =
                        [r EXCEPT !.pc = "user", !.session = NewChatSession(nextId, t1, t2),
                                  !.newSession = nextId]]
    /\ TakeSnapshot
    /\ UNCHANGED <<messages, reactions, schema, seq>>
    /\ served' = served + 1

\* Create the user message; the handler then calls the AI service.
SendMessage_User(p) ==
    /\ rq[p].op = "SendMessage" /\ rq[p].pc = "user"
    /\ \E t \in TimeNow(now) :
        LET r == rq[p]
            row == UserMessage(r.text, t, r.session.id)
        IN
        /\ now' = t
        /\ IF InsertMessageOk(row) THEN
              /\ messages' = Put(messages, nextId, row)
              /\ nextId' = nextId + 1
              /\ \E up \in Upstreams :
                    rq' = [rq EXCEPT ![p] = [r EXCEPT !.pc = "ai", !.userMsg = nextId, !.upstream = up]]
           ELSE
              /\ rq' = [rq EXCEPT ![p] = Done(r, 500)]
              /\ UNCHANGED <<messages, nextId>>
    /\ UNCHANGED <<sessions, reactions, schema, pre, seq, served>>

\* Mutant: the error of the AI service is not looked at.
SendAIFailed_Ignored(res) == FALSE

\* if err != nil: the handler answers 500 and returns.
SendAIFailed(res) == res = AIError

\* Get the AI response and create the bot message.
SendMessage_AI(p) ==
    /\ rq[p].op = "SendMessage" /\ rq[p].pc = "ai"
    /\ \E res \in ClientResults(rq[p].upstream) : \E t \in (IF SendAIFailed(res) THEN {now} ELSE TimeNow(now)) :
        LET r == [rq[p] EXCEPT !.aiCalls = @ + 1, !.prompt = rq[p].text,
                               !.aiResponse = ReplyText(res), !.aiErr = (res = AIError)]
            row == BotMessage(r.aiResponse, t, r.session.id)
        IN
        IF SendAIFailed(res) THEN
           /\ rq' = [rq EXCEPT ![p] = Done(r, 500)]
           /\ UNCHANGED <<messages, nextId, now>>
        ELSE IF InsertMessageOk(row) THEN
           /\ messages' = Put(messages, nextId, row)
           /\ nextId' = nextId + 1
           /\ now' = t
           /\ rq' = [rq EXCEPT ![p] = [r EXCEPT !.pc = "save", !.botMsg = nextId]]
        ELSE
           /\ now' = t
           /\ rq' = [rq EXCEPT ![p] = Done(r, 500)]
           /\ UNCHANGED <<messages, nextId>>
    /\ UNCHANGED <<sessions, reactions, schema, pre, seq, served>>

\* Update the session timestamp: db.Save writes the whole row the handler
\* holds, and inserts it when no row has its id.
SendMessage_Save(p) ==
    /\ rq[p].op = "SendMessage" /\ rq[p].pc = "save"
    /\ \E t \in TimeNow(now) :
        LET r == [rq[p] EXCEPT !.session.updated_at = t] IN
        /\ now' = t
        /\ sessions' = Put(sessions, r.session.id, RowOfSession(r.session))
        /\ rq' = [rq EXCEPT ![p] = Done(r, 200)]
    /\ UNCHANGED <<messages, reactions, schema, nextId, pre, seq, served>>

\* ------------------------------------------- handlers.RegenerateMessage
\* db.First(&originalMessage, "id = ?", id)
FirstMessageErr(id) == id \notin DOMAIN messages

\* Mutant: timestamp <= ? in place of timestamp < ?.
PreviousUserMessages_NotStrict(sid, ts) ==
    {m \in DOMAIN messages :
        /\ messages[m].session_id = sid
        /\ messages[m].sender = "user"
        /\ messages[m].timestamp <= ts}

\* Where("session_id = ? AND sender = ? AND timestamp < ?", sid, "user", ts)
PreviousUserMessages(sid, ts) ==
    {m \in DOMAIN messages :
        /\ messages[m].session_id = sid
        /\ messages[m].sender = "user"
        /\ messages[m].timestamp < ts}

\* Mutant: the ORDER BY is left out.
LatestOf_Any(cands) == cands

\* Order("timestamp DESC").First: a row of the greatest timestamp (the
\* database picks among equal timestamps).
LatestOf(cands) == {m \in cands : \A o \in cands : messages[o].timestamp <= messages[m].timestamp}

\* Mutant: the flag is flipped.
MarkRegenerated_Flip(m) == [m EXCEPT !.is_regenerated = ~m.is_regenerated, !.original_message_id = m.id]

\* Mutant: the flag is not set on the original message.
MarkRegenerated_NoFlag(m) == [m EXCEPT !.original_message_id = m.id]

\* Mark original message as regenerated.
MarkRegenerated(m) == [m EXCEPT !.is_regenerated = TRUE, !.original_message_id = m.id]

\* db.Save(&message): UPDATE of every column; when no row has the id, an
\* INSERT, which the constraints may reject (the handler drops the error).
MessagesAfterSave(m) ==
    IF m.id \in DOMAIN messages \/ InsertMessageOk(RowOfMessage(m))
    THEN Put(messages, m.id, RowOfMessage(m))
    ELSE messages

\* Mutant: the new message does not name the message it replaces.
RegeneratedMessage_NoLink(reply, t, sid, mid) == MessageRow(reply, "bot", t, TRUE, EmptyId, sid)

RegeneratedMessage(reply, t, sid, mid) == MessageRow(reply, "bot", t, TRUE, mid, sid)

\* Bind the request and get the original message.
RegenerateMessage_Begin(p) ==
    /\ Accept(p)
    /\ IdsLeft >= 1
    /\ \E mid \in {EmptyId} \cup KnownMids, sid \in {EmptyId} \cup KnownSids :
        LET r == Frame("RegenerateMessage", sid, mid, "") IN
        \* one request stands for those the handler treats alike before it
        \* reads the session: a missing field, a missing message
        /\ (mid = EmptyId \/ sid = EmptyId \/ mid = BadId) => (mid \in {EmptyId, BadId} /\ sid \in {EmptyId, BadId})
        /\ rq' = [rq EXCEPT ![p] =
                 IF mid = EmptyId \/ sid = EmptyId THEN Done(r, 400)
                 ELSE IF FirstMessageErr(mid) THEN Done(r, 404)
                 ELSE [r EXCEPT !.pc = "sess", !.orig = MessageStruct(mid, messages[mid])]]
    /\ TakeSnapshot
    /\ StoreUnchanged
    /\ UNCHANGED <<schema, now, nextId, seq>>
    /\ served' = served + 1

\* Check if session exists.
RegenerateMessage_Session(p) ==
    /\ rq[p].op = "RegenerateMessage" /\ rq[p].pc = "sess"
    /\ rq' = [rq EXCEPT ![p] =
                 IF FirstSessionErr(rq[p].sessionId) THEN Done(rq[p], 404)
                 ELSE [rq[p] EXCEPT !.pc = "prev",
                                    !.session = SessionStruct(rq[p].sessionId, sessions[rq[p].sessionId])]]
    /\ StoreUnchanged
    /\ UNCHANGED <<schema, now, nextId, pre, seq, served>>

\* Get the previous user message.
RegenerateMessage_Prev(p) ==
    /\ rq[p].op = "RegenerateMessage" /\ rq[p].pc = "prev"
    /\ LET cands == PreviousUserMessages(rq[p].sessionId, rq[p].orig.timestamp) IN
       \E m \in (IF cands = {} THEN {EmptyId} ELSE LatestOf(cands)) :
        rq' = [rq EXCEPT ![p] =
                 IF m = EmptyId THEN Done(rq[p], 404)
                 ELSE [rq[p] EXCEPT !.pc = "mark", !.userMsg = m, !.prompt = messages[m].content]]
    /\ StoreUnchanged
    /\ UNCHANGED <<schema, now, nextId, pre, seq, served>>

\* Mark the original message and save it.
RegenerateMessage_Mark(p) ==
    /\ rq[p].op = "RegenerateMessage" /\ rq[p].pc = "mark"
    /\ LET r == [rq[p] EXCEPT !.orig = MarkRegenerated(rq[p].orig)] IN
        /\ messages' = MessagesAfterSave(r.orig)
        /\ \E up \in Upstreams : rq' = [rq EXCEPT ![p] = [r EXCEPT !.pc = "ai", !.upstream = up]]
    /\ UNCHANGED <<sessions, reactions, schema, now, nextId, pre, seq, served>>

\* if err != nil: the handler answers 500 and returns.
RegenerateAIFailed(res) == res = AIError

\* Get the new AI response and create the new bot message.
RegenerateMessage_AI(p) ==
    /\ rq[p].op = "RegenerateMessage" /\ rq[p].pc = "ai"
    /\ \E res \in ClientResults(rq[p].upstream) : \E t \in (IF RegenerateAIFailed(res) THEN {now} ELSE TimeNow(now)) :
        LET r == [rq[p] EXCEPT !.aiCalls = @ + 1, !.aiResponse = ReplyText(res),
                               !.aiErr = (res = AIError)]
            row == RegeneratedMessage(r.aiResponse, t, r.sessionId, r.messageId)
        IN
        IF RegenerateAIFailed(res) THEN
           /\ rq' = [rq EXCEPT ![p] = Done(r, 500)]
           /\ UNCHANGED <<messages, nextId, now>>
        ELSE IF InsertMessageOk(row) THEN
           /\ messages' = Put(messages, nextId, row)
           /\ nextId' = nextId + 1
           /\ now' = t
           /\ rq' = [rq EXCEPT ![p] = Done([r EXCEPT !.botMsg = nextId], 200)]
        ELSE
           /\ now' = t
           /\ rq' = [rq EXCEPT ![p] = Done(r, 500)]
           /\ UNCHANGED <<messages, nextId>>
    /\ UNCHANGED <<sessions, reactions, schema, pre, seq, served>>

\* --------------------------------------------- handlers (session routes)
\* Set default title if not provided.
HandlerTitle(title) == IF title = "" THEN DefaultTitle ELSE title

\* handlers.CreateSession: bound is FALSE for a body that is not JSON.
CreateSession(p) ==
    /\ Accept(p)
    /\ IdsLeft >= 1
    /\ \E title \in Titles, bound \in BOOLEAN :
        LET r == [Frame("CreateSession", EmptyId, EmptyId, "") EXCEPT !.title = title] IN
        IF ~bound THEN
           /\ title = ""
           /\ rq' = [rq EXCEPT ![p] = Done(r, 400)]
           /\ UNCHANGED <<sessions, now, nextId>>
        ELSE
           \E t1 \in TimeNow(now) : \E t2 \in TimeNow(t1) :
           /\ sessions' = Put(sessions, nextId, SessionRow(HandlerTitle(title), t2, FALSE))
           /\ now' = t2
           /\ nextId' = nextId + 1
           /\ rq' = [rq EXCEPT ![p] = Done([r EXCEPT !.newSession = nextId], 201)]
    /\ TakeSnapshot
    /\ UNCHANGED <<messages, reactions, schema, seq>>
    /\ served' = served + 1

\* handlers.GetSession: the session with its messages, or 404.
GetSessionStatus(id) == IF PreloadFirstSessionErr("Messages", id) THEN 404 ELSE 200

GetSession(p) ==
    /\ Accept(p)
    /\ \E sid \in UsedIds :
        rq' = [rq EXCEPT ![p] = Done(Frame("GetSession", sid, EmptyId, ""), GetSessionStatus(sid))]
    /\ TakeSnapshot
    /\ StoreUnchanged
    /\ UNCHANGED <<schema, now, nextId, seq>>
    /\ served' = served + 1

\* handlers.DeleteSession: check if the session exists.
DeleteSession_Begin(p) ==
    /\ Accept(p)
    /\ \E sid \in KnownSids :
        LET r == Frame("DeleteSession", sid, EmptyId, "") IN
        rq' = [rq EXCEPT ![p] =
                 IF FirstSessionErr(sid) THEN Done(r, 404)
                 ELSE [r EXCEPT !.pc = "delmsgs", !.session = SessionStruct(sid, sessions[sid])]]
    /\ TakeSnapshot
    /\ StoreUnchanged
    /\ UNCHANGED <<schema, now, nextId, seq>>
    /\ served' = served + 1

\* handlers.DeleteSession: delete associated messages first.
DeleteSession_Messages(p) ==
    /\ rq[p].op = "DeleteSession" /\ rq[p].pc = "delmsgs"
    /\ messages' = MessagesAfterDelete(rq[p].sessionId)
    /\ reactions' = ReactionsAfterDelete(rq[p].sessionId)
    /\ rq' = [rq EXCEPT ![p] =
                 IF DeleteMessagesErr(rq[p].sessionId) THEN Done(rq[p], 500)
                 ELSE [rq[p] EXCEPT !.pc = "delsess"]]
    /\ UNCHANGED <<sessions, schema, now, nextId, pre, seq, served>>

\* handlers.DeleteSession: delete the session.
DeleteSession_Row(p) ==
    /\ rq[p].op = "DeleteSession" /\ rq[p].pc = "delsess"
    /\ sessions' = SessionsAfterDeleteRow(rq[p].session.id)
    /\ messages' = MessagesAfterDeleteRow(rq[p].session.id)
    /\ reactions' = ReactionsAfterDeleteRow(rq[p].session.id)
    /\ rq' = [rq EXCEPT ![p] =
                 Done(rq[p], IF DeleteSessionRowErr(rq[p].session.id) THEN 500 ELSE 200)]
    /\ UNCHANGED <<schema, now, nextId, pre, seq, served>>

\* ------------------------------------------------------ services.ChatService
\* A method's result is kept as a status: 200 for a nil error, 404 for
\* gorm.ErrRecordNotFound, 500 for any other error.
SvcTitle(title) == title

\* ChatService.CreateSession
SvcCreateSession(p) ==
    /\ Accept(p)
    /\ IdsLeft >= 1
    /\ \E title \in Titles : \E t1 \in TimeNow(now) : \E t2 \in TimeNow(t1) :
        LET r == [Frame("SvcCreateSession", EmptyId, EmptyId, "") EXCEPT !.title = title] IN
        /\ sessions' = Put(sessions, nextId, SessionRow(SvcTitle(title), t2, FALSE))
        /\ now' = t2
        /\ rq' = [rq EXCEPT ![p] = Done([r EXCEPT !.newSession = nextId], 200)]
    /\ nextId' = nextId + 1
    /\ TakeSnapshot
    /\ UNCHANGED <<messages, reactions, schema, seq>>
    /\ served' = served + 1

\* ChatService.DeleteSession: delete associated messages first.
SvcDeleteSession_Begin(p) ==
    /\ Accept(p)
    /\ \E sid \in KnownSids :
        LET r == Frame("SvcDeleteSession", sid, EmptyId, "") IN
        /\ messages' = MessagesAfterDelete(sid)
        /\ reactions' = ReactionsAfterDelete(sid)
        /\ rq' = [rq EXCEPT ![p] =
                    IF DeleteMessagesErr(sid) THEN Done(r, 500) ELSE [r EXCEPT !.pc = "delsess"]]
    /\ TakeSnapshot
    /\ UNCHANGED <<sessions, schema, now, nextId, seq>>
    /\ served' = served + 1

\* ChatService.DeleteSession: delete the session.
SvcDeleteSession_Row(p) ==
    /\ rq[p].op = "SvcDeleteSession" /\ rq[p].pc = "delsess"
    /\ sessions' = SessionsAfterDeleteRow(rq[p].sessionId)
    /\ messages' = MessagesAfterDeleteRow(rq[p].sessionId)
    /\ reactions' = ReactionsAfterDeleteRow(rq[p].sessionId)
    /\ rq' = [rq EXCEPT ![p] =
                 Done(rq[p], IF DeleteSessionRowErr(rq[p].sessionId) THEN 500 ELSE 200)]
    /\ UNCHANGED <<schema, now, nextId, pre, seq, served>>

\* ------------------------------------- UpdateSession and ToggleFavorite
\* The handler and the ChatService method run the same statements; op tells
\* them apart.
\* UpdateSessionRequest: title "" and isFavorite nil leave the field alone.
FavInputs == {"nil", "true", "false"}

\* Mutant: the timestamp of the zero value is written.
UpdatedSession_Stale(s, title, fav, t) ==
    [s EXCEPT !.title = IF title # "" THEN title ELSE @,
              !.is_favorite = IF fav # "nil" THEN fav = "true" ELSE @,
              !.updated_at = ZeroSession.updated_at]

\* Update fields if provided.
UpdatedSession(s, title, fav, t) ==
    [s EXCEPT !.title = IF title # "" THEN title ELSE @,
              !.is_favorite = IF fav # "nil" THEN fav = "true" ELSE @,
              !.updated_at = t]

\* Mutant: the flag is set, not toggled.
ToggledSession_Set(s, t) == [s EXCEPT !.is_favorite = TRUE, !.updated_at = t]

\* Toggle favorite status.
ToggledSession(s, t) == [s EXCEPT !.is_favorite = ~s.is_favorite, !.updated_at = t]

\* Bind the request and load the session.
UpdateBegin(p, op) ==
    /\ Accept(p)
    /\ \E sid \in KnownSids, title \in Titles, fav \in FavInputs, bound \in BOOLEAN :
        LET r == [Frame(op, sid, EmptyId, "") EXCEPT !.title = title, !.isFavorite = fav] IN
        /\ ~bound => (title = "" /\ fav = "nil" /\ sid = BadId /\ op = "UpdateSession")
        /\ rq' = [rq EXCEPT ![p] =
                    IF ~bound THEN Done(r, 400)
                    ELSE IF FirstSessionErr(sid) THEN Done(r, 404)
                    ELSE [r EXCEPT !.pc = "save", !.session = SessionStruct(sid, sessions[sid])]]
    /\ TakeSnapshot
    /\ StoreUnchanged
    /\ UNCHANGED <<schema, now, nextId, seq>>
    /\ served' = served + 1

\* db.Save(&session)
UpdateSave(p, op) ==
    /\ rq[p].op = op /\ rq[p].pc = "save"
    /\ \E t \in TimeNow(now) :
        LET r == [rq[p] EXCEPT !.session = UpdatedSession(rq[p].session, rq[p].title, rq[p].isFavorite, t)] IN
        /\ now' = t
        /\ sessions' = Put(sessions, r.session.id, RowOfSession(r.session))
        /\ rq' = [rq EXCEPT ![p] = Done(r, 200)]
    /\ UNCHANGED <<messages, reactions, schema, nextId, pre, seq, served>>

ToggleBegin(p, op) ==
    /\ Accept(p)
    /\ \E sid \in KnownSids :
        LET r == Frame(op, sid, EmptyId, "") IN
        rq' = [rq EXCEPT ![p] =
                 IF FirstSessionErr(sid) THEN Done(r, 404)
                 ELSE [r EXCEPT !.pc = "save", !.session = SessionStruct(sid, sessions[sid])]]
    /\ TakeSnapshot
    /\ StoreUnchanged
    /\ UNCHANGED <<schema, now, nextId, seq>>
    /\ served' = served + 1

ToggleSave(p, op) ==
    /\ rq[p].op = op /\ rq[p].pc = "save"
    /\ \E t \in TimeNow(now) :
        LET r == [rq[p] EXCEPT !.session = ToggledSession(rq[p].session, t)] IN
        /\ now' = t
        /\ sessions' = Put(sessions, r.session.id, RowOfSession(r.session))
        /\ rq' = [rq EXCEPT ![p] = Done(r, 200)]
    /\ UNCHANGED <<messages, reactions, schema, nextId, pre, seq, served>>

\* handlers.UpdateSession
UpdateSession_Begin(p) == UpdateBegin(p, "UpdateSession")
UpdateSession_Save(p) == UpdateSave(p, "UpdateSession")

\* ChatService.UpdateSession
SvcUpdateSession_Begin(p) == UpdateBegin(p, "SvcUpdateSession")
SvcUpdateSession_Save(p) == UpdateSave(p, "SvcUpdateSession")

\* handlers.ToggleFavorite
ToggleFavorite_Begin(p) == ToggleBegin(p, "ToggleFavorite")
ToggleFavorite_Save(p) == ToggleSave(p, "ToggleFavorite")

\* ChatService.ToggleFavorite
SvcToggleFavorite_Begin(p) == ToggleBegin(p, "SvcToggleFavorite")
SvcToggleFavorite_Save(p) == ToggleSave(p, "SvcToggleFavorite")

\* ------------------------------------------------ ChatService.AddMessage
\* The message AddMessage builds from its arguments.
AddedMessage(content, sender, t, sid) == MessageRow(content, sender, t, FALSE, EmptyId, sid)

\* Model(&models.Session{}).Where("id = ?", sid).Update("updated_at", t): no
\* error when no row matches.
SessionsAfterTouch(sid, t) ==
    IF sid \in DOMAIN sessions THEN [sessions EXCEPT ![sid].updated_at = t] ELSE sessions

\* s.db.Create(message)
SvcAddMessage_Begin(p) ==
    /\ Accept(p)
    /\ IdsLeft >= 1
    /\ \E sid \in KnownSids, content \in AddTexts, sender \in Senders : \E t \in TimeNow(now) :
        LET r == [Frame("SvcAddMessage", sid, EmptyId, content) EXCEPT !.sender = sender]
            row == AddedMessage(content, sender, t, sid)
        IN
        /\ now' = t
        /\ IF InsertMessageOk(row) THEN
              /\ messages' = Put(messages, nextId, row)
              /\ nextId' = nextId + 1
              /\ rq' = [rq EXCEPT ![p] = [r EXCEPT !.pc = "touch", !.userMsg = nextId]]
           ELSE
              /\ rq' = [rq EXCEPT ![p] = Done(r, 500)]
              /\ UNCHANGED <<messages, nextId>>
    /\ TakeSnapshot
    /\ UNCHANGED <<sessions, reactions, schema, seq>>
    /\ served' = served + 1

\* Update session timestamp.
SvcAddMessage_Touch(p) ==
    /\ rq[p].op = "SvcAddMessage" /\ rq[p].pc = "touch"
    /\ \E t \in TimeNow(now) :
        /\ now' = t
        /\ sessions' = SessionsAfterTouch(rq[p].sessionId, t)
        /\ rq' = [rq EXCEPT ![p] = Done(rq[p], 200)]
    /\ UNCHANGED <<messages, reactions, schema, nextId, pre, seq, served>>

\* The handler has written its response and returns.
Return(p) ==
    /\ rq[p].pc = "done"
    /\ rq' = [rq EXCEPT ![p] = Idle]
    /\ pre' = IF seq THEN [Snapshot EXCEPT !.last = LastToggle(rq[p])] ELSE pre
    /\ StoreUnchanged
    /\ UNCHANGED <<schema, now, nextId, seq, served>>

\* ------------------------------------------------------------ the system
\* The tables as initDB finds them, under either schema, with the clock
\* where the last write left it: empty; one session with two user messages,
\* the bot's reply and a reaction to it; two sessions with one message each.
\* (The reactions table has no writer in this code: its row stands for one
\* written by another client of the database.)
EmptyStore == [sessions |-> <<>>, messages |-> <<>>, reactions |-> {}, now |-> 0]

DemoStore ==
    [sessions |-> (11 :> SessionRow("Demo Chat", 2, FALSE)),
     messages |-> (12 :> MessageRow("Hi", "user", 0, FALSE, EmptyId, 11)
                   @@ 13 :> MessageRow("Yo", "user", 1, FALSE, EmptyId, 11)
                   @@ 14 :> MessageRow("R1", "bot", 2, FALSE, EmptyId, 11)),
     reactions |-> {[id |-> 1, message_id |-> 14]},
     now |-> 2]

PairStore ==
    [sessions |-> (11 :> SessionRow("New Chat", 0, FALSE) @@ 13 :> SessionRow("T1", 1, TRUE)),
     messages |-> (12 :> MessageRow("Hi", "user", 0, FALSE, EmptyId, 11)
                   @@ 14 :> MessageRow("R1", "bot", 1, FALSE, EmptyId, 13)),
     reactions |-> {},
     now |-> 1]

InitStore(db) ==
    /\ sessions = db.sessions
    /\ messages = db.messages
    /\ reactions = db.reactions
    /\ now = db.now
    /\ nextId = 1
    /\ pre = [sessions |-> db.sessions, messages |-> db.messages, reactions |-> db.reactions,
              now |-> db.now, last |-> NoToggle]

InitCommon ==
    /\ \E db \in {EmptyStore, DemoStore, PairStore} : InitStore(db)
    /\ schema \in {"ddl", "automigrate"}
    /\ rq = [p \in Procs |-> Idle]
    /\ served = 0

Init == InitCommon /\ seq = TRUE

ConcInit == InitCommon /\ seq = FALSE

Next ==
    \E p \in Procs :
        \/ SendMessage_Begin(p)
        \/ SendMessage_User(p)
        \/ SendMessage_AI(p)
        \/ SendMessage_Save(p)
        \/ RegenerateMessage_Begin(p)
        \/ RegenerateMessage_Session(p)
        \/ RegenerateMessage_Prev(p)
        \/ RegenerateMessage_Mark(p)
        \/ RegenerateMessage_AI(p)
        \/ CreateSession(p)
        \/ GetSession(p)
        \/ DeleteSession_Begin(p)
        \/ DeleteSession_Messages(p)
        \/ DeleteSession_Row(p)
        \/ SvcCreateSession(p)
        \/ SvcDeleteSession_Begin(p)
        \/ SvcDeleteSession_Row(p)
        \/ UpdateSession_Begin(p)
        \/ UpdateSession_Save(p)
        \/ SvcUpdateSession_Begin(p)
        \/ SvcUpdateSession_Save(p)
        \/ ToggleFavorite_Begin(p)
        \/ ToggleFavorite_Save(p)
        \/ SvcToggleFavorite_Begin(p)
        \/ SvcToggleFavorite_Save(p)
        \/ SvcAddMessage_Begin(p)
        \/ SvcAddMessage_Touch(p)
        \/ Return(p)

\* Requests served one at a time.
Spec == Init /\ [][Next]_vars

\* Requests interleaved statement by statement.
ConcSpec == ConcInit /\ [][Next]_vars

\* The steps of a handler that has accepted its request: gin runs each
\* handler in a goroutine of its own, straight-line code whose database
\* statements and AI call return, so a handler that can take its next step
\* takes it.
Progress(p) ==
    \/ SendMessage_User(p)
    \/ SendMessage_AI(p)
    \/ SendMessage_Save(p)
    \/ RegenerateMessage_Session(p)
    \/ RegenerateMessage_Prev(p)
    \/ RegenerateMessage_Mark(p)
    \/ RegenerateMessage_AI(p)
    \/ DeleteSession_Messages(p)
    \/ DeleteSession_Row(p)
    \/ SvcDeleteSession_Row(p)
    \/ UpdateSession_Save(p)
    \/ SvcUpdateSession_Save(p)
    \/ ToggleFavorite_Save(p)
    \/ SvcToggleFavorite_Save(p)
    \/ SvcAddMessage_Touch(p)

\* Requests served one at a time by handlers that keep running.
LiveSpec == Init /\ [][Next]_vars /\ \A p \in Procs : WF_vars(Progress(p))

\* ------------------------------------------------------------ properties
\* The properties below are about one call: they compare the store with pre,
\* the store as it was when the call was accepted, and are checked under
\* Spec, where no other request runs during the call.
Finished(p, op) == rq[p].op = op /\ rq[p].pc = "done"

\* The rows of old are all still there, unchanged.
Kept(new, old) == \A k \in DOMAIN old : k \in DOMAIN new /\ new[k] = old[k]

Added(new, old) == (DOMAIN new) \ (DOMAIN old)

StoreAsBefore == sessions = pre.sessions /\ messages = pre.messages /\ reactions = pre.reactions

\* C1: SendMessage with a non-empty sessionId answers 404 only when no session
\* with that id is stored; when the session exists (and the AI service
\* replies), the call answers 200, inserts the user message and the bot reply
\* into that session and returns that sessionId.
C1_SendToExistingSession ==
    \A p \in Procs :
        (Finished(p, "SendMessage") /\ rq[p].sessionId # EmptyId /\ rq[p].text # "") =>
            /\ rq[p].status = 404 => rq[p].sessionId \notin DOMAIN pre.sessions
            /\ (rq[p].sessionId \in DOMAIN pre.sessions /\ ~rq[p].aiErr) =>
                 /\ rq[p].status = 200
                 /\ rq[p].session.id = rq[p].sessionId
                 /\ \E u, b \in Added(messages, pre.messages) :
                      /\ messages[u].sender = "user" /\ messages[u].session_id = rq[p].sessionId
                      /\ messages[b].sender = "bot" /\ messages[b].session_id = rq[p].sessionId

\* C2: a successful SendMessage with an empty sessionId adds exactly one
\* session (title "New Chat", not favorite) and exactly two messages, both of
\* the new session: first a user message with the request text, then a bot
\* message with the reply, the user's timestamp not later than the bot's.
\* Nothing else in the store changes.
C2_SendCreatesSessionAndTwoMessages ==
    \A p \in Procs :
        (Finished(p, "SendMessage") /\ rq[p].status = 200 /\ rq[p].sessionId = EmptyId) =>
            /\ Kept(sessions, pre.sessions) /\ Kept(messages, pre.messages)
            /\ reactions = pre.reactions
            /\ Cardinality(Added(sessions, pre.sessions)) = 1
            /\ Cardinality(Added(messages, pre.messages)) = 2
            /\ \E s \in Added(sessions, pre.sessions) :
                 /\ sessions[s].title = "New Chat"
                 /\ sessions[s].is_favorite = FALSE
                 /\ s = rq[p].session.id
                 /\ \E u, b \in Added(messages, pre.messages) :
                      /\ u < b
                      /\ messages[u].sender = "user" /\ messages[u].content = rq[p].text
                      /\ messages[b].sender = "bot" /\ messages[b].content = rq[p].aiResponse
                      /\ rq[p].aiResponse \in Replies
                      /\ messages[u].session_id = s /\ messages[b].session_id = s
                      /\ messages[u].timestamp <= messages[b].timestamp

C2_Witness ==
    \E p \in Procs :
        /\ Finished(p, "SendMessage") /\ rq[p].status = 200 /\ rq[p].sessionId = EmptyId
        /\ pre.sessions # <<>>
        /\ \E u, b \in Added(messages, pre.messages) : messages[u].timestamp < messages[b].timestamp

\* C3: when the AI service fails during SendMessage, the call answers 500,
\* the user message it inserted (and the session it created) stays stored, no
\* bot message is inserted and the session row, updated_at included, is as it
\* was read or created.
C3_SendAIFailureKeepsUserMessage ==
    \A p \in Procs :
        (Finished(p, "SendMessage") /\ rq[p].aiErr) =>
            /\ rq[p].status = 500
            /\ Kept(messages, pre.messages) /\ reactions = pre.reactions
            /\ Added(messages, pre.messages) = {rq[p].userMsg}
            /\ messages[rq[p].userMsg].sender = "user"
            /\ messages[rq[p].userMsg].content = rq[p].text
            /\ messages[rq[p].userMsg].session_id = rq[p].session.id
            /\ Kept(sessions, pre.sessions)
            /\ Added(sessions, pre.sessions) = {rq[p].newSession} \ {EmptyId}
            /\ rq[p].session.id \in DOMAIN sessions
            /\ sessions[rq[p].session.id] = RowOfSession(rq[p].session)
            /\ rq[p].sessionId # EmptyId =>
                 sessions[rq[p].sessionId].updated_at = pre.sessions[rq[p].sessionId].updated_at

C3_Witness ==
    \E p \in Procs :
        /\ Finished(p, "SendMessage") /\ rq[p].aiErr /\ rq[p].status = 500
        /\ rq[p].newSession \in DOMAIN sessions
        /\ rq[p].userMsg \in DOMAIN messages

\* C4: a successful RegenerateMessage(M, S) inserts exactly one message: a
\* bot message of session S with is_regenerated set, original_message_id = M
\* and the AI service's reply as content.
C4_RegenerateInsertsReplacement ==
    \A p \in Procs :
        (Finished(p, "RegenerateMessage") /\ rq[p].status = 200) =>
            /\ Cardinality(Added(messages, pre.messages)) = 1
            /\ DOMAIN pre.messages \subseteq DOMAIN messages
            /\ \A n \in Added(messages, pre.messages) :
                 /\ messages[n].sender = "bot"
                 /\ messages[n].is_regenerated = TRUE
                 /\ messages[n].original_message_id = rq[p].messageId
                 /\ messages[n].session_id = rq[p].sessionId
                 /\ messages[n].content = rq[p].aiResponse
                 /\ rq[p].aiResponse \in Replies

C4_Witness ==
    \E p \in Procs :
        /\ Finished(p, "RegenerateMessage") /\ rq[p].status = 200
        /\ Added(messages, pre.messages) # {}

\* The user messages of session sid stored before the call, strictly earlier than ts.
EarlierUserMessagesBefore(sid, ts) ==
    {m \in DOMAIN pre.messages :
        /\ pre.messages[m].session_id = sid
        /\ pre.messages[m].sender = "user"
        /\ pre.messages[m].timestamp < ts}

\* C5: RegenerateMessage answers 404 when session S holds no user message
\* strictly earlier than the target; whenever it answers 404 (no such user
\* message, no target, no session) the store is unchanged and the AI service
\* was not called.
C5_RegenerateNotFoundLeavesStore ==
    \A p \in Procs :
        Finished(p, "RegenerateMessage") =>
            /\ ( /\ rq[p].messageId \in DOMAIN pre.messages
                 /\ rq[p].sessionId \in DOMAIN pre.sessions
                 /\ EarlierUserMessagesBefore(rq[p].sessionId,
                                              pre.messages[rq[p].messageId].timestamp) = {} )
               => rq[p].status = 404
            /\ ( \/ rq[p].messageId \notin DOMAIN pre.messages \cup {EmptyId}
                 \/ rq[p].sessionId \notin DOMAIN pre.sessions \cup {EmptyId} )
               => (rq[p].status = 404 \/ rq[p].status = 400)
            /\ rq[p].status = 404 => (StoreAsBefore /\ rq[p].aiCalls = 0)

C5_Witness ==
    \E p \in Procs :
        /\ Finished(p, "RegenerateMessage") /\ rq[p].status = 404
        /\ rq[p].messageId \in DOMAIN messages
        /\ rq[p].sessionId \in DOMAIN sessions
        /\ messages[rq[p].messageId].sender = "bot"
        /\ messages[rq[p].messageId].session_id = rq[p].sessionId
        /\ ~messages[rq[p].messageId].is_regenerated

\* C6: after a RegenerateMessage on target M, M keeps its empty
\* original_message_id; only the new message has original_message_id set.
C6_OriginalKeepsEmptyOriginalId ==
    \A p \in Procs :
        ( /\ Finished(p, "RegenerateMessage") /\ rq[p].status = 200
          /\ pre.messages[rq[p].messageId].original_message_id = EmptyId )
        => /\ messages[rq[p].messageId].original_message_id = EmptyId
           /\ \A n \in Added(messages, pre.messages) :
                messages[n].original_message_id = rq[p].messageId

\* C7: when the AI service fails during RegenerateMessage, the call answers
\* 500, the target message stays flagged is_regenerated and no message is
\* inserted.
C7_RegenerateAIFailureKeepsFlag ==
    \A p \in Procs :
        (Finished(p, "RegenerateMessage") /\ rq[p].aiErr) =>
            /\ rq[p].status = 500
            /\ rq[p].messageId \in DOMAIN messages
            /\ messages[rq[p].messageId].is_regenerated = TRUE
            /\ DOMAIN messages = DOMAIN pre.messages

C7_Witness ==
    \E p \in Procs :
        /\ Finished(p, "RegenerateMessage") /\ rq[p].aiErr
        /\ ~pre.messages[rq[p].messageId].is_regenerated

\* C8: DeleteSession(id), handler or ChatService method, on an id with no
\* stored session fails with NotFound and deletes no message.
C8_DeleteMissingSessionNotFound ==
    \A p \in Procs :
        ( /\ Finished(p, "DeleteSession") \/ Finished(p, "SvcDeleteSession")
          /\ rq[p].sessionId \notin DOMAIN pre.sessions )
        => (rq[p].status = 404 /\ messages = pre.messages)

\* Once the row of a handed-out id is gone from sessions it stays gone, no
\* message names the id and GetSession on it answers 404.
GoneStaysGone ==
    \A id \in UsedIds :
        id \notin DOMAIN sessions =>
            /\ id \notin DOMAIN sessions'
            /\ MessagesOf(messages', id) = {}
            /\ GetSessionStatus(id)' = 404

\* What a DeleteSession that reported success leaves.
DeletedClean(p) ==
    (( Finished(p, "DeleteSession") \/ Finished(p, "SvcDeleteSession")) /\ rq[p].status = 200) =>
        /\ rq[p].sessionId \notin DOMAIN sessions
        /\ MessagesOf(messages, rq[p].sessionId) = {}
        /\ \A r \in reactions : r.message_id \notin MessagesOf(pre.messages, rq[p].sessionId)
        /\ \A r \in reactions : r.message_id \in DOMAIN messages
        /\ GetSessionStatus(rq[p].sessionId) = 404

C10_CreateSessionTitle ==
    \A p \in Procs :
        ((Finished(p, "CreateSession") \/ Finished(p, "SvcCreateSession")) /\ rq[p].status # 400) =>
            /\ rq[p].newSession \in DOMAIN sessions
            /\ sessions[rq[p].newSession].title =
                 (IF rq[p].title = "" THEN "New Chat" ELSE rq[p].title)

\* The calls that write a session or its messages, and the session a
\* finished call wrote to.
MutatingOps ==
    {"CreateSession", "SvcCreateSession", "UpdateSession", "SvcUpdateSession",
     "ToggleFavorite", "SvcToggleFavorite", "SendMessage", "SvcAddMessage",
     "RegenerateMessage"}

Succeeded(p) == rq[p].pc = "done" /\ rq[p].status \in {200, 201}

SessionOf(r) ==
    CASE r.op \in {"CreateSession", "SvcCreateSession"} -> r.newSession
      [] r.op = "SendMessage" -> r.session.id
      [] OTHER -> r.sessionId

\* C11: every successful mutating call (CreateSession, UpdateSession,
\* ToggleFavorite, SendMessage, AddMessage, RegenerateMessage) leaves the
\* session it wrote to with updated_at at the time of the call: not earlier
\* than the clock when the call was accepted, not later than the clock now.
C11_MutationsRefreshUpdatedAt ==
    \A p \in Procs :
        (Succeeded(p) /\ rq[p].op \in MutatingOps) =>
            /\ SessionOf(rq[p]) \in DOMAIN sessions
            /\ pre.now <= sessions[SessionOf(rq[p])].updated_at
            /\ sessions[SessionOf(rq[p])].updated_at <= now

\* C12: from one step to the next the stored updated_at of a session never
\* decreases, whatever mutating calls follow one another.
C12_UpdatedAtMonotone ==
    [][\A s \in (DOMAIN sessions) \cap (DOMAIN sessions') :
          sessions[s].updated_at <= sessions'[s].updated_at]_vars

\* Two calls have been served and the second, an UpdateSession or a
\* ToggleFavorite, moved updated_at forward.
C12_Witness ==
    \E p \in Procs :
        /\ served = 2
        /\ Succeeded(p) /\ rq[p].op \in {"UpdateSession", "ToggleFavorite"}
        /\ rq[p].sessionId \in DOMAIN pre.sessions
        /\ pre.sessions[rq[p].sessionId].updated_at < sessions[rq[p].sessionId].updated_at
        /\ pre.sessions[rq[p].sessionId].updated_at > 0

\* C13: a successful ToggleFavorite (handler or ChatService method) stores
\* the negation of the flag the session had; when the call before it was a
\* successful ToggleFavorite of the same session, the flag is back at the
\* value it had before that first call.
C13_ToggleFavoriteInvolution ==
    \A p \in Procs :
        (Succeeded(p) /\ rq[p].op \in ToggleOps) =>
            /\ sessions[rq[p].sessionId].is_favorite = ~pre.sessions[rq[p].sessionId].is_favorite
            /\ pre.last.sessionId = rq[p].sessionId =>
                 sessions[rq[p].sessionId].is_favorite = pre.last.is_favorite

\* The second of two consecutive ToggleFavorite calls on a session has ended.
C13_Witness ==
    \E p \in Procs :
        /\ Succeeded(p) /\ rq[p].op \in ToggleOps
        /\ pre.last.sessionId = rq[p].sessionId
        /\ sessions[rq[p].sessionId].is_favorite

DeleteOps == {"DeleteSession", "SvcDeleteSession"}

\* C14: every stored message names a stored session, in every state of
\* every interleaving of two requests: an insert naming a missing session is
\* rejected and a session delete leaves no message of the session behind.
C14_MessagesReferenceSessions ==
    \A m \in DOMAIN messages : messages[m].session_id \in DOMAIN sessions

\* A DeleteSession has ended with success while an AddMessage for the same
\* session, whose insert went through, has not yet returned: the inserted
\* message went with the session.
C14_Witness ==
    \E p, q \in Procs :
        /\ rq[p].op \in DeleteOps /\ Succeeded(p)
        /\ rq[q].op = "SvcAddMessage" /\ rq[q].pc \in {"touch", "done"}
        /\ rq[q].sessionId = rq[p].sessionId
        /\ rq[q].userMsg # EmptyId
        /\ rq[q].userMsg \notin DOMAIN messages
        /\ rq[p].sessionId \in SeedIds

\* C15: every stored message has sender user or bot; an AddMessage with any
\* other sender is rejected and stores nothing.
C15_SenderIsUserOrBot ==
    \A m \in DOMAIN messages : messages[m].sender \in {"user", "bot"}

\* A handler is between accepting a SendMessage or RegenerateMessage request
\* and writing its response.
Pending(p) ==
    /\ rq[p].op \in {"SendMessage", "RegenerateMessage"}
    /\ rq[p].pc \notin {"idle", "done"}

\* C16: every SendMessage and RegenerateMessage request that was accepted
\* gets its response, also when the completion endpoint never answers.
C16_RequestsGetResponse ==
    \A p \in Procs : Pending(p) ~> (rq[p].pc = "done")

\* A request whose completion call got no answer has ended with status 500.
C16_Witness ==
    \E p \in Procs :
        /\ rq[p].op \in {"SendMessage", "RegenerateMessage"}
        /\ rq[p].pc = "done" /\ rq[p].status = 500
        /\ rq[p].upstream = Silent /\ rq[p].aiErr

\* The user messages of session sid with the greatest timestamp below ts, in
\* the store as it was when the call was accepted.
LatestUserMessagesBefore(sid, ts) ==
    {m \in EarlierUserMessagesBefore(sid, ts) :
        \A o \in EarlierUserMessagesBefore(sid, ts) :
            pre.messages[o].timestamp <= pre.messages[m].timestamp}

\* C17: the prompt RegenerateMessage passes to the AI service is the content
\* of a user message of session S whose timestamp is the greatest among those
\* strictly below the target's.
C17_RegeneratePromptIsLatestUserMessage ==
    \A p \in Procs :
        (rq[p].op = "RegenerateMessage" /\ rq[p].aiCalls > 0) =>
            \E m \in LatestUserMessagesBefore(rq[p].sessionId, pre.messages[rq[p].messageId].timestamp) :
                rq[p].prompt = pre.messages[m].content

\* The AI service was called for a target that has two earlier user messages
\* with different timestamps in its session.
C17_Witness ==
    \E p \in Procs :
        /\ rq[p].op = "RegenerateMessage" /\ rq[p].aiCalls > 0
        /\ \E a, b \in EarlierUserMessagesBefore(rq[p].sessionId, pre.messages[rq[p].messageId].timestamp) :
              pre.messages[a].timestamp < pre.messages[b].timestamp

\* C18: a message that has is_regenerated set keeps it set in every later
\* state in which it is stored, in every interleaving of two requests.
C18_IsRegeneratedOneWay ==
    [][\A m \in (DOMAIN messages) \cap (DOMAIN messages') :
          messages[m].is_regenerated => messages'[m].is_regenerated]_vars

\* A message is flagged while another RegenerateMessage, which read it
\* before it was flagged, is about to save it.
C18_Witness ==
    \E p \in Procs : \E m \in DOMAIN messages :
        /\ messages[m].is_regenerated
        /\ rq[p].op = "RegenerateMessage" /\ rq[p].pc = "mark"
        /\ rq[p].messageId = m /\ ~rq[p].orig.is_regenerated

\* C19: a step removes a stored message only as part of a DeleteSession of
\* the session that owns it, and no step changes the content, sender,
\* timestamp or session_id of a stored message.
C19_MessagesAppendOnly ==
    [][\A m \in DOMAIN messages :
          IF m \in DOMAIN messages'
          THEN /\ messages'[m].content = messages[m].content
               /\ messages'[m].sender = messages[m].sender
               /\ messages'[m].timestamp = messages[m].timestamp
               /\ messages'[m].session_id = messages[m].session_id
          ELSE \E p \in Procs :
                 /\ rq'[p] # rq[p]
                 /\ rq'[p].op \in DeleteOps
                 /\ rq'[p].sessionId = messages[m].session_id]_vars

\* A DeleteSession removed the message of one session while the message of
\* another session stayed.
C19_Witness ==
    /\ \E p \in Procs : rq[p].op \in DeleteOps /\ Succeeded(p) /\ rq[p].sessionId = 11
    /\ 12 \notin DOMAIN messages
    /\ 14 \in DOMAIN messages

\* C20: a RegenerateMessage succeeds only when the target message belongs to
\* the session the request names, so that the new message and the message
\* its original_message_id names are in the same session.
C20_RegenerateSameSession ==
    \A p \in Procs :
        (rq[p].op = "RegenerateMessage" /\ Succeeded(p)) =>
            /\ rq[p].messageId \in DOMAIN pre.messages
            /\ pre.messages[rq[p].messageId].session_id = rq[p].sessionId
            /\ messages[rq[p].botMsg].session_id = pre.messages[rq[p].messageId].session_id

\* C21: while a DeleteSession that ended with success has not yet returned,
\* and so in every state after its delete, no session row carries the id it
\* deleted, also when another request that read the session before the
\* delete saves it afterwards (two interleaved requests).
C21_DeletedSessionStaysDeleted ==
    \A p \in Procs :
        (rq[p].op \in DeleteOps /\ Succeeded(p)) => rq[p].sessionId \notin DOMAIN sessions

\* C22: the step in which SendMessage saves its session leaves the title and
\* the favorite flag of every stored session as they were, whatever another
\* request wrote while the SendMessage waited for the AI service (two
\* interleaved requests).
C22_SendMessageSavesOnlyUpdatedAt ==
    [][\A p \in Procs :
          (rq[p].op = "SendMessage" /\ rq[p].pc = "save" /\ rq'[p].pc = "done") =>
              \A s \in (DOMAIN sessions) \cap (DOMAIN sessions') :
                  /\ sessions'[s].title = sessions[s].title
                  /\ sessions'[s].is_favorite = sessions[s].is_favorite]_vars

\* C23: in every reachable state a message with sender user has
\* is_regenerated false.
C23_UserMessagesNeverFlagged ==
    \A m \in DOMAIN messages : messages[m].sender = "user" => ~messages[m].is_regenerated

====
